---- MODULE Spec2Model ----
(***************************************************************************)
(* Model of function_app.py: the TimerBackup run of the Logic Apps         *)
(* Standard backup function.  One run validates its settings, obtains the  *)
(* publishing credentials, discovers the workflows over the Kudu VFS API,  *)
(* fetches each workflow.json, masks "api-key" values and overwrites       *)
(* <site>/<workflow>/latest.json in the backup container.                  *)
(*                                                                         *)
(* Every HTTP call goes through _retry_request.  The remote collaborators  *)
(* (ARM, Kudu, Blob storage, the managed identity endpoint) are the        *)
(* environment: each request is answered by a nondeterministic choice of a *)
(* transport failure or a response (status, body).                         *)
(***************************************************************************)
EXTENDS Integers, Sequences, FiniteSets, TLC

(***************************************************************************)
(* Bounds of the model.                                                    *)
(***************************************************************************)
MaxRetryMax == 2      \* RETRY_MAX ranges over -1 .. MaxRetryMax
MaxEntries == 2       \* longest directory listing the VFS API answers with
MaxParts == 5         \* most pieces of a document given to the redactor alone

(***************************************************************************)
(* Text.  A document is a sequence of lexical units: the double quote, the *)
(* word api-key, the colon, a whitespace character, any other character,   *)
(* and the word ***REDACTED*** (which contains no double quote).           *)
(***************************************************************************)
QUOTE == "\""
KEY == "api-key"
COLON == ":"
SPACE == " "
CH == "x"
BACKSLASH == "\\"
REDACTED == <<"***REDACTED***">>

None == "None"

\* str.__contains__: sub occurs in t as a contiguous run.
Contains(t, sub) ==
    \E k \in 0..(Len(t) - Len(sub)) :
        \A j \in 1..Len(sub) : t[k + j] = sub[j]

\* \s* : the first index >= j of t that holds no whitespace (Len(t)+1 if none).
RECURSIVE SkipSpace(_, _)
SkipSpace(t, j) ==
    IF j <= Len(t) /\ t[j] = SPACE THEN SkipSpace(t, j + 1) ELSE j

\* [^"]* followed by " : the first index >= j of t that holds a double quote
\* (Len(t)+1 if none).
RECURSIVE NextQuote(_, _)
NextQuote(t, j) ==
    IF j <= Len(t) /\ t[j] # QUOTE THEN NextQuote(t, j + 1) ELSE j

\* The pattern ("api-key"\s*:\s*")[^"]*(") anchored at index p of t:
\* [open |-> index of the quote opening the value, close |-> index of the
\* quote closing it], or open = 0 when the pattern does not match at p.
NoMatch == [open |-> 0, close |-> 0]

pattern(t, p) ==
    IF /\ p + 2 <= Len(t)
       /\ t[p] = QUOTE /\ t[p + 1] = KEY /\ t[p + 2] = QUOTE
    THEN LET a == SkipSpace(t, p + 3)
         IN  IF a <= Len(t) /\ t[a] = COLON
             THEN LET b == SkipSpace(t, a + 1)
                  IN  IF b <= Len(t) /\ t[b] = QUOTE
                      THEN LET e == NextQuote(t, b + 1)
                           IN  IF e <= Len(t)
                               THEN [open |-> b, close |-> e]
                               ELSE NoMatch
                      ELSE NoMatch
             ELSE NoMatch
    ELSE NoMatch

\* Mutant: the token is written in front of the value, which is kept.
Replacement_KeepValue(t, p, m) ==
    SubSeq(t, p, m.open) \o REDACTED \o SubSeq(t, m.open + 1, m.close)

\* What the replacement template \1 + REDACTED + \2 writes for a match
\* whose groups are t[p..open] and t[close].
Replacement(t, p, m) ==
    SubSeq(t, p, m.open) \o REDACTED \o <<t[m.close]>>

\* re.sub scanning t from index p: leftmost non-overlapping matches are
\* replaced, everything else is copied.
RECURSIVE Sub(_, _)
Sub(t, p) ==
    IF p > Len(t) THEN <<>>
    ELSE LET m == pattern(t, p)
         IN  IF m.open # 0
             THEN Replacement(t, p, m) \o Sub(t, m.close + 1)
             ELSE <<t[p]>> \o Sub(t, p + 1)

redact_workflow_json(raw_text) == Sub(raw_text, 1)

\* Mutant: the audit looks for the field name alone.
RedactCheck_NameOnly(safe_) ==
    Contains(safe_, <<QUOTE, KEY, QUOTE>>)

\* The audit condition of TimerBackup.
RedactCheck(safe_) ==
    Contains(safe_, <<QUOTE, KEY, QUOTE>>) /\ ~Contains(safe_, REDACTED)

(***************************************************************************)
(* The environment: settings, HTTP statuses, directory listings, files.    *)
(***************************************************************************)
\* os.environ.get(...) of a setting without default: unset, empty or set.
SettingValues == {None, "", "set"}
SiteValues == {None, "", "site"}
RetryValues == (-1)..MaxRetryMax

\* Statuses a completed exchange can bear; 204 stands for the statuses
\* below 400 other than 200, 500 for those from 400 on other than 403, 404.
Statuses == {200, 204, 403, 404, 500}

\* Workflow names in code point order, which is the order sorted() uses.
NameOrder == <<"A", "B">>
Names == {NameOrder[k] : k \in DOMAIN NameOrder}
Rank(n) == CHOOSE k \in DOMAIN NameOrder : NameOrder[k] = n

Mimes == {"inode/directory", "text/plain"}

\* What a listing can hold: a directory or a file of a workflow name, and
\* the file host.json.
Entries ==
    [name : Names, mime : Mimes]
       \cup {[name |-> "host.json", mime |-> "application/json"]}

\* A directory listing: entries in any order, no name twice (the names of
\* one directory are distinct).
Listings ==
    {s \in UNION {[1..n -> Entries] : n \in 0..MaxEntries} :
        \A a, b \in DOMAIN s : a # b => s[a].name # s[b].name}

\* The workflow.json documents the VFS API can serve.
DocEmpty == <<>>
DocPlain == <<CH>>
DocSecret ==
    <<QUOTE, KEY, QUOTE, COLON, QUOTE, CH, QUOTE, CH,
      QUOTE, KEY, QUOTE, SPACE, COLON, SPACE, QUOTE, QUOTE>>
DocUnquoted == <<QUOTE, KEY, QUOTE, COLON, CH>>
Docs == {DocEmpty, DocPlain, DocSecret, DocUnquoted}

\* The payloads of the publishingcredentials call, after the properties
\* lookup: with both fields, or with the password missing.
CredPayloads ==
    {[publishingUserName |-> "user", publishingPassword |-> "pwd"],
     [publishingUserName |-> "user", publishingPassword |-> None]}

\* sorted(): insertion sort by code point order.
RECURSIVE Insert(_, _)
Insert(n, s) ==
    IF s = <<>> THEN <<n>>
    ELSE IF Rank(n) <= Rank(Head(s)) THEN <<n>> \o s
    ELSE <<Head(s)>> \o Insert(n, Tail(s))

RECURSIVE sorted(_)
sorted(s) == IF s = <<>> THEN <<>> ELSE Insert(Head(s), sorted(Tail(s)))

\* wf_name in found
In(n, s) == \E k \in DOMAIN s : s[k] = n

(***************************************************************************)
(* State.                                                                  *)
(***************************************************************************)
VARIABLES
    SUBSCRIPTION_ID, RESOURCE_GROUP_NAME, LOGICAPP_SITE_NAME, RETRY_MAX,
    run,            \* "idle", "running", "returned" (normally) or "raised"
    pc,             \* the call of the run that is in progress
    attempt,        \* _retry_request: the loop variable
    sent,           \* _retry_request: requests sent by the current call
    slept,          \* _retry_request: time.sleep calls of the current call
    fails,          \* _retry_request: exceptions caught by the current call
    resp,           \* _retry_request: what the current call gave its caller
    entries,        \* list_workflows: the listing being scanned
    i,              \* list_workflows: index of the entry being probed
    found,          \* list_workflows: found
    workflows_dir,  \* list_workflows: 0 = root scan, k = k-th legacy directory
    workflows,      \* TimerBackup: the discovery result
    w,              \* TimerBackup: index in workflows of wf
    c,              \* get_workflow_json: index of url in candidates
    statuses,       \* get_workflow_json: statuses answered to this call so far
    content,        \* TimerBackup: content
    safe,           \* TimerBackup: safe
    uploaded,       \* TimerBackup: uploaded
    summary,        \* the result dicts logged by step 4 of the run
    log,            \* levels logged by the run
    net,            \* collaborators the run has sent a request to
    store,          \* the backup container: blob path -> content
    created,        \* upload_latest_to_blob: how create_container ended
    started,        \* overlapping invocations: their order of start
    writes          \* overlapping invocations: the completed upload_blob calls

settings == <<SUBSCRIPTION_ID, RESOURCE_GROUP_NAME, LOGICAPP_SITE_NAME, RETRY_MAX>>
frame == <<attempt, sent, slept, fails, resp>>
lw == <<entries, i, found, workflows_dir>>
gw == <<c, statuses>>
tb == <<workflows, w, uploaded, summary>>
overlap == <<started, writes>>
vars ==
    <<settings, run, pc, frame, lw, gw, tb, content, safe, log, net, store,
      created, overlap>>

NoCall == [kind |-> "nocall", status |-> 0, body |-> None]
Pending == [kind |-> "pending", status |-> 0, body |-> None]
NoneResp == [kind |-> "None", status |-> 0, body |-> None]
RaisedResp == [kind |-> "raised", status |-> 0, body |-> None]
Response(s, b) == [kind |-> "response", status |-> s, body |-> b]

\* A setting or field is truthy: neither None nor the empty string.
Truthy(v) == v # None /\ v # ""

\* Optional[str]: the absent result None, or a text.
Absent == [some |-> FALSE, text |-> <<>>]
Text(t) == [some |-> TRUE, text |-> t]

\* Mutant: if content is not None.
HasContent_NotNone(v) == v.some

\* if content: neither None nor the empty text.
HasContent(v) == v.some /\ v.text # <<>>

\* blob_path = f"{logicapp_name}/{wf_name}/latest.json"
blob_path(logicapp_name, wf_name) == <<logicapp_name, wf_name, "latest.json">>

\* The candidates list of get_workflow_json, as paths under wwwroot.
candidates(wf_name) ==
    << <<wf_name, "workflow.json">>,
       <<"Workflows", wf_name, "workflow.json">>,
       <<"workflows", wf_name, "workflow.json">> >>

\* The directories of the compatibility scan, in the order of the loop.
LegacyDirs == <<"Workflows", "workflows">>

\* The collaborator the call in progress talks to.
Collaborator == IF pc = "creds" THEN "arm" ELSE "vfs"

\* The bodies a response of the given status can carry for the call in
\* progress.  Only a 200 body is ever read; a probe's body is never read.
Bodies(status) ==
    IF status # 200 THEN {None}
    ELSE IF pc = "creds" THEN CredPayloads
    ELSE IF pc \in {"list_root", "list_legacy"} THEN Listings
    ELSE IF pc = "fetch" THEN Docs
    ELSE {None}

Init ==
    /\ SUBSCRIPTION_ID \in SettingValues
    /\ RESOURCE_GROUP_NAME \in SettingValues
    /\ LOGICAPP_SITE_NAME \in SiteValues
    /\ RETRY_MAX \in RetryValues
    /\ run = "idle" /\ pc = "start"
    /\ attempt = 0 /\ sent = 0 /\ slept = 0 /\ fails = 0 /\ resp = NoCall
    /\ entries = <<>> /\ i = 0 /\ found = <<>> /\ workflows_dir = 0
    /\ workflows = <<>> /\ w = 0 /\ c = 0 /\ statuses = <<>>
    /\ content = Absent /\ safe = <<>> /\ uploaded = <<>>
    /\ summary = <<>> /\ log = {} /\ net = {}
    /\ store = [p \in {} |-> None]
    /\ created = "none" /\ started = <<>> /\ writes = <<>>

(***************************************************************************)
(* _retry_request.                                                         *)
(***************************************************************************)
\* A caller enters _retry_request.
Call ==
    /\ attempt' = 1 /\ sent' = 0 /\ slept' = 0 /\ fails' = 0
    /\ resp' = Pending

\* The call has returned and its caller is done with the response.
Forget ==
    /\ attempt' = 0 /\ sent' = 0 /\ slept' = 0 /\ fails' = 0
    /\ resp' = NoCall

\* for attempt in range(1, RETRY_MAX + 1): the loop has another round.
InRange == attempt <= RETRY_MAX

\* How one requests.request ends: 0 for an exception (no response), else
\* the status of the response.
Outcomes == {0} \cup Statuses

\* requests.request raised instead of returning a response.
Excepted(outcome) == outcome = 0

\* if attempt == RETRY_MAX: raise
LastAttempt == attempt = RETRY_MAX

\* Mutant: a response with a status from 500 on is retried like a
\* transport failure while attempts remain.
retry_request_StatusRetry(outcome, body) ==
    /\ run = "running" /\ resp.kind = "pending"
    /\ UNCHANGED <<settings, created, overlap, pc, lw, gw, tb, content, safe,
                   log, store>>
    /\ IF ~InRange
       THEN /\ resp' = NoneResp
            /\ UNCHANGED <<run, attempt, sent, slept, fails, net>>
       ELSE /\ sent' = sent + 1
            /\ net' = net \cup {Collaborator}
            /\ IF Excepted(outcome)
               THEN /\ fails' = fails + 1
                    /\ IF LastAttempt
                       THEN /\ resp' = RaisedResp
                            /\ run' = "raised"
                            /\ UNCHANGED <<attempt, slept>>
                       ELSE /\ slept' = slept + 1
                            /\ attempt' = attempt + 1
                            /\ UNCHANGED <<resp, run>>
               ELSE IF outcome >= 500 /\ ~LastAttempt
               THEN /\ slept' = slept + 1
                    /\ attempt' = attempt + 1
                    /\ UNCHANGED <<resp, run, fails>>
               ELSE /\ resp' = Response(outcome, body)
                    /\ UNCHANGED <<run, attempt, slept, fails>>

\* One round of the loop of _retry_request.
retry_request(outcome, body) ==
    /\ run = "running" /\ resp.kind = "pending"
    /\ UNCHANGED <<settings, created, overlap, pc, lw, gw, tb, content, safe,
                   log, store>>
    /\ IF ~InRange
       THEN \* the loop is over and the function falls off its end
            /\ resp' = NoneResp
            /\ UNCHANGED <<run, attempt, sent, slept, fails, net>>
       ELSE /\ sent' = sent + 1
            /\ net' = net \cup {Collaborator}
            /\ IF Excepted(outcome)
               THEN /\ fails' = fails + 1
                    /\ IF LastAttempt
                       THEN /\ resp' = RaisedResp
                            /\ run' = "raised"
                            /\ UNCHANGED <<attempt, slept>>
                       ELSE /\ slept' = slept + 1
                            /\ attempt' = attempt + 1
                            /\ UNCHANGED <<resp, run>>
               ELSE /\ resp' = Response(outcome, body)
                    /\ UNCHANGED <<run, attempt, slept, fails>>

\* The caller of _retry_request has its return value in hand.
Returned(at) ==
    run = "running" /\ pc = at /\ resp.kind \in {"response", "None"}

\* An exception leaves TimerBackup: the run has failed.
Raise ==
    /\ run' = "raised"
    /\ UNCHANGED <<settings, created, overlap, pc, frame, lw, gw, tb, content,
                   safe, log, net,
                   store>>

\* raise_for_status() raises on this response (attribute access on None
\* raises as well).
RaisesForStatus == resp.kind = "None" \/ resp.status >= 400

(***************************************************************************)
(* TimerBackup, step 3 and 4: the loop over workflows and the result log.  *)
(***************************************************************************)
\* Mutant: the result lists a path for every discovered workflow.
result_AllFound(wfs, upl) ==
    [site |-> LOGICAPP_SITE_NAME,
     workflows_found |-> wfs,
     uploaded |-> [k \in DOMAIN wfs |->
                      blob_path(LOGICAPP_SITE_NAME, wfs[k])]]

\* result = {"site": ..., "workflows_found": workflows, "uploaded": uploaded}
result(wfs, upl) ==
    [site |-> LOGICAPP_SITE_NAME,
     workflows_found |-> wfs,
     uploaded |-> upl]

\* The for loop of TimerBackup reaches index idx of wfs with uploaded upl:
\* it calls get_workflow_json, or it is over and step 4 logs the result.
Loop(wfs, idx, upl) ==
    /\ workflows' = wfs /\ uploaded' = upl
    /\ IF idx <= Len(wfs)
       THEN /\ pc' = "fetch" /\ w' = idx /\ c' = 1 /\ statuses' = <<>>
            /\ Call
            /\ UNCHANGED <<run, summary>>
       ELSE /\ pc' = "summary" /\ w' = 0 /\ c' = 0 /\ statuses' = <<>>
            /\ Forget
            /\ run' = "returned"
            /\ summary' = Append(summary, result(wfs, upl))

(***************************************************************************)
(* TimerBackup, step 0 and 1: settings check, get_publishing_credentials.  *)
(***************************************************************************)
\* Mutant: only the subscription and the site are checked.
MissingEnv_Partial ==
    ~(Truthy(SUBSCRIPTION_ID) /\ Truthy(LOGICAPP_SITE_NAME))

\* if not (SUBSCRIPTION_ID and RESOURCE_GROUP_NAME and LOGICAPP_SITE_NAME)
MissingEnv ==
    ~(Truthy(SUBSCRIPTION_ID) /\ Truthy(RESOURCE_GROUP_NAME)
      /\ Truthy(LOGICAPP_SITE_NAME))

\* The timer fires: a new invocation of TimerBackup, up to the POST of
\* get_publishing_credentials.  tokenOk: cred.get_token returned a token.
TimerBackup(tokenOk) ==
    /\ run \in {"idle", "returned", "raised"}
    /\ UNCHANGED <<settings, overlap, store>>
    /\ created' = "none"
    /\ entries' = <<>> /\ i' = 0 /\ found' = <<>> /\ workflows_dir' = 0
    /\ workflows' = <<>> /\ w' = 0 /\ c' = 0 /\ statuses' = <<>>
    /\ content' = Absent /\ safe' = <<>> /\ uploaded' = <<>>
    /\ summary' = <<>>
    /\ IF MissingEnv
       THEN /\ log' = {"info", "error"}
            /\ run' = "returned" /\ pc' = "start"
            /\ net' = {}
            /\ Forget
       ELSE /\ log' = {"info"}
            /\ pc' = "creds"
            /\ net' = {"token"}
            /\ IF tokenOk
               THEN run' = "running" /\ Call
               ELSE run' = "raised" /\ Forget

\* if not (user and pwd): raise RuntimeError
HasCredentials(payload) ==
    Truthy(payload.publishingUserName) /\ Truthy(payload.publishingPassword)

\* get_publishing_credentials from the response of the POST on, then the
\* root listing request of list_workflows.  resp.json() raises on a body
\* that is no JSON (a response without content).
get_publishing_credentials ==
    /\ Returned("creds")
    /\ IF RaisesForStatus \/ resp.status # 200 \/ ~HasCredentials(resp.body)
       THEN Raise
       ELSE /\ pc' = "list_root"
            /\ Call
            /\ UNCHANGED <<settings, created, overlap, run, lw, gw, tb,
                           content, safe, log, net,
                           store>>

(***************************************************************************)
(* list_workflows.                                                         *)
(***************************************************************************)
\* if e.get("mime") == "inode/directory": the least index >= from of a
\* directory entry of es, 0 if there is none.
NextDir(es, from) ==
    IF \E k \in from..Len(es) : es[k].mime = "inode/directory"
    THEN CHOOSE k \in from..Len(es) :
            /\ es[k].mime = "inode/directory"
            /\ \A j \in from..(k - 1) : es[j].mime # "inode/directory"
    ELSE 0

\* return sorted(found), and on to step 3 of TimerBackup.  (found keeps
\* the list that was sorted.)
list_workflows_return(fnd) ==
    /\ entries' = <<>> /\ i' = 0 /\ found' = fnd /\ workflows_dir' = 0
    /\ Loop(sorted(fnd), 1, <<>>)

\* The scan of listing es goes on from index from, with found = fnd, in
\* the root scan (dir = 0) or in the dir-th legacy directory: the next
\* directory entry is probed; after the last one the next legacy directory
\* is listed; after the last legacy directory list_workflows returns.
Scan(es, from, fnd, dir) ==
    LET j == NextDir(es, from)
    IN  IF j # 0
        THEN /\ pc' = (IF dir = 0 THEN "probe_root" ELSE "probe_legacy")
             /\ entries' = es /\ i' = j /\ found' = fnd
             /\ workflows_dir' = dir
             /\ Call
             /\ UNCHANGED <<run, gw, tb>>
        ELSE IF dir < Len(LegacyDirs)
        THEN /\ pc' = "list_legacy"
             /\ entries' = <<>> /\ i' = 0 /\ found' = fnd
             /\ workflows_dir' = dir + 1
             /\ Call
             /\ UNCHANGED <<run, gw, tb>>
        ELSE list_workflows_return(fnd)

\* The response to the root listing request: raise_for_status, then
\* entries = resp.json() (which raises on a response without content).
list_workflows_root ==
    /\ Returned("list_root")
    /\ IF RaisesForStatus \/ resp.status # 200
       THEN Raise
       ELSE /\ Scan(resp.body, 1, <<>>, 0)
            /\ UNCHANGED <<settings, created, overlap, content, safe, log, net,
                           store>>

\* if r.status_code == 200 (root scan)
ProbeFound == resp.status = 200

\* Mutant: the root probe's status check never raises.
ProbeRaises_Never == FALSE

\* elif r.status_code not in (404, 403): r.raise_for_status()
ProbeRaises == resp.status \notin {404, 403} /\ RaisesForStatus

\* The response to the probe of entries[i] in the root scan.
list_workflows_probe ==
    /\ Returned("probe_root")
    /\ IF resp.kind = "None" \/ (~ProbeFound /\ ProbeRaises)
       THEN Raise
       ELSE /\ Scan(entries, i + 1,
                    IF ProbeFound THEN Append(found, entries[i].name)
                    ELSE found,
                    0)
            /\ UNCHANGED <<settings, created, overlap, content, safe, log, net,
                           store>>

\* elif r.status_code not in (404, 403): r.raise_for_status()  (listing of
\* a legacy directory)
LegacyListRaises == resp.status \notin {404, 403} /\ RaisesForStatus

\* The response to the listing request of the legacy directory
\* LegacyDirs[workflows_dir].  A 200 listing is scanned; any other
\* response that does not raise leaves the directory out.
list_workflows_legacy ==
    /\ Returned("list_legacy")
    /\ IF resp.kind = "None" \/ (resp.status # 200 /\ LegacyListRaises)
       THEN Raise
       ELSE /\ Scan(IF resp.status = 200 THEN resp.body ELSE <<>>, 1, found,
                    workflows_dir)
            /\ UNCHANGED <<settings, created, overlap, content, safe, log, net,
                           store>>

\* Mutant: the legacy probe appends without looking into found.
LegacyProbeFound_NoDedup == resp.status = 200

\* if rr.status_code == 200 and wf_name not in found
LegacyProbeFound == resp.status = 200 /\ ~In(entries[i].name, found)

\* After the legacy probe's if there is no elif: no status raises.
LegacyProbeRaises == FALSE

\* The response to the probe of entries[i] in a legacy directory.
list_workflows_legacy_probe ==
    /\ Returned("probe_legacy")
    /\ IF resp.kind = "None" \/ LegacyProbeRaises
       THEN Raise
       ELSE /\ Scan(entries, i + 1,
                    IF LegacyProbeFound THEN Append(found, entries[i].name)
                    ELSE found,
                    workflows_dir)
            /\ UNCHANGED <<settings, created, overlap, content, safe, log, net,
                           store>>

(***************************************************************************)
(* get_workflow_json, and the body of the loop of TimerBackup up to the    *)
(* call of upload_latest_to_blob.                                          *)
(***************************************************************************)
\* The url of the request in progress, as a path under wwwroot.
url == candidates(workflows[w])[c]

\* Mutant: only the root-direct location is taken on success.
FetchFound_RootOnly == resp.status = 200 /\ c = 1

\* if resp.status_code == 200: return resp.text
FetchFound == resp.status = 200

\* Mutant: the status check of get_workflow_json never raises.
FetchRaises_Never == FALSE

\* if resp.status_code not in (404, 403): resp.raise_for_status()
FetchRaises == resp.status \notin {404, 403} /\ RaisesForStatus

\* Mutant: the fetched text is uploaded as it is.
Safe_Raw(text) == text

\* What TimerBackup hands to upload_latest_to_blob for the fetched text.
Safe(text) == redact_workflow_json(text)

\* Mutant: the upload is not waited for: the loop goes on with the next
\* workflow as soon as the text is redacted.
Fetched_NoWait(got) ==
    /\ content' = got
    /\ Loop(workflows, w + 1, uploaded)
    /\ IF HasContent(got)
       THEN /\ safe' = Safe(got.text)
            /\ log' = IF RedactCheck(Safe(got.text))
                      THEN log \cup {"warning"} ELSE log
       ELSE UNCHANGED <<safe, log>>

\* get_workflow_json returned got (Absent: None) to TimerBackup: if
\* content, it is redacted, audited and handed to the upload; else the
\* loop goes on with the next workflow.
Fetched(got) ==
    /\ content' = got
    /\ IF HasContent(got)
       THEN /\ safe' = Safe(got.text)
            /\ log' = IF RedactCheck(Safe(got.text))
                      THEN log \cup {"warning"} ELSE log
            /\ pc' = "create"
            /\ c' = c /\ statuses' = <<>>
            /\ Forget
            /\ UNCHANGED <<run, tb>>
       ELSE /\ Loop(workflows, w + 1, uploaded)
            /\ UNCHANGED <<safe, log>>

\* The response to the request for candidates[c].
get_workflow_json ==
    /\ Returned("fetch")
    /\ IF resp.kind = "None" \/ (~FetchFound /\ FetchRaises)
       THEN Raise
       ELSE /\ UNCHANGED <<settings, created, overlap, lw, net, store>>
            /\ IF FetchFound
               THEN Fetched(Text(resp.body))
               ELSE IF c < Len(candidates(workflows[w]))
               THEN /\ c' = c + 1
                    /\ statuses' = Append(statuses, resp.status)
                    /\ Call
                    /\ UNCHANGED <<run, pc, tb, content, safe, log>>
               ELSE Fetched(Absent)

(***************************************************************************)
(* upload_latest_to_blob, and the rest of the body of the loop.            *)
(***************************************************************************)
\* How cc.create_container() ends: the container is created, it exists
\* already (ResourceExistsError), or any other exception.
CreateOutcomes == {"created", "exists", "error"}
BlobOutcomes == {"ok", "error"}

\* Mutant: an exception of create_container leaves upload_latest_to_blob.
create_container_Propagates(create) ==
    /\ run = "running" /\ pc = "create"
    /\ created' = create
    /\ net' = net \cup {"container"}
    /\ IF create = "created"
       THEN /\ pc' = "upload"
            /\ UNCHANGED run
       ELSE /\ run' = "raised"
            /\ UNCHANGED pc
    /\ UNCHANGED <<settings, overlap, frame, lw, gw, tb, content, safe, log,
                   store>>

\* try: cc.create_container() except Exception: pass
create_container(create) ==
    /\ run = "running" /\ pc = "create"
    /\ created' = create
    /\ net' = net \cup {"container"}
    /\ pc' = "upload"
    /\ UNCHANGED <<settings, overlap, run, frame, lw, gw, tb, content, safe,
                   log, store>>

\* Mutant: the blob is written only where none exists (overwrite=False
\* without the error).
upload_blob_NoOverwrite(path, data) ==
    [p \in DOMAIN store \cup {path} |->
        IF p \in DOMAIN store THEN store[p] ELSE data]

\* Mutant: the data is appended to what the blob holds.
upload_blob_Append(path, data) ==
    [p \in DOMAIN store \cup {path} |->
        IF p # path THEN store[p]
        ELSE IF p \in DOMAIN store THEN store[p] \o data ELSE data]

\* upload_blob(content.encode("utf-8"), overwrite=True) on the container.
upload_blob(path, data) ==
    [p \in DOMAIN store \cup {path} |-> IF p = path THEN data ELSE store[p]]

\* upload_latest_to_blob from the blob write on, and the append to uploaded.
\* blob: how upload_blob ended (an exception leaves TimerBackup).
upload_latest_to_blob(blob) ==
    /\ run = "running" /\ pc = "upload"
    /\ net' = net \cup {"blob"}
    /\ UNCHANGED <<settings, created, overlap, lw, content, safe, log>>
    /\ IF blob = "ok"
       THEN /\ store' = upload_blob(blob_path(LOGICAPP_SITE_NAME, workflows[w]),
                                    safe)
            /\ Loop(workflows, w + 1,
                    Append(uploaded,
                           blob_path(LOGICAPP_SITE_NAME, workflows[w])))
       ELSE /\ run' = "raised"
            /\ UNCHANGED <<pc, frame, gw, tb, store>>

(***************************************************************************)
(* The specification.                                                      *)
(***************************************************************************)
Next ==
    \/ \E tokenOk \in BOOLEAN : TimerBackup(tokenOk)
    \/ \E outcome \in Outcomes :
         \E body \in Bodies(outcome) : retry_request(outcome, body)
    \/ get_publishing_credentials
    \/ list_workflows_root
    \/ list_workflows_probe
    \/ list_workflows_legacy
    \/ list_workflows_legacy_probe
    \/ get_workflow_json
    \/ \E create \in CreateOutcomes : create_container(create)
    \/ \E blob \in BlobOutcomes : upload_latest_to_blob(blob)

Spec == Init /\ [][Next]_vars

(***************************************************************************)
(* redact_workflow_json on its own: line 171 applied to a document, and    *)
(* applied once more to its own output.                                    *)
(***************************************************************************)
\* The pieces documents are made of: the quoted field name, each lexical
\* unit alone, an escaped double quote, and the masking token.
Pieces ==
    {<<QUOTE, KEY, QUOTE>>, <<KEY>>, <<QUOTE>>, <<COLON>>, <<SPACE>>, <<CH>>,
     <<BACKSLASH, QUOTE>>, REDACTED}

\* The concatenation of a sequence of pieces.
RECURSIVE Flatten(_)
Flatten(f) == IF f = <<>> THEN <<>> ELSE Head(f) \o Flatten(Tail(f))

\* The documents of at most MaxParts pieces.
Documents ==
    {Flatten(f) : f \in UNION {[1..k -> Pieces] : k \in 0..MaxParts}}

InitRedact ==
    /\ SUBSCRIPTION_ID = "set" /\ RESOURCE_GROUP_NAME = "set"
    /\ LOGICAPP_SITE_NAME = "site" /\ RETRY_MAX = 3
    /\ run = "running" /\ pc = "redact"
    /\ attempt = 0 /\ sent = 0 /\ slept = 0 /\ fails = 0 /\ resp = NoCall
    /\ entries = <<>> /\ i = 0 /\ found = <<>> /\ workflows_dir = 0
    /\ workflows = <<>> /\ w = 0 /\ c = 0 /\ statuses = <<>>
    /\ content \in {Text(d) : d \in Documents}
    /\ safe = <<>> /\ uploaded = <<>>
    /\ summary = <<>> /\ log = {} /\ net = {}
    /\ store = [p \in {} |-> None]
    /\ created = "none" /\ started = <<>> /\ writes = <<>>

\* safe = redact_workflow_json(content)
Redact ==
    /\ pc = "redact"
    /\ safe' = Safe(content.text)
    /\ pc' = "redacted"
    /\ UNCHANGED <<settings, created, overlap, run, frame, lw, gw, tb, content,
                   log, net, store>>

\* The output is given to redact_workflow_json once more.
RedactAgain ==
    /\ pc = "redacted"
    /\ content' = Text(safe)
    /\ safe' = Safe(safe)
    /\ pc' = "again"
    /\ UNCHANGED <<settings, created, overlap, run, frame, lw, gw, tb, log, net,
                   store>>

NextRedact == Redact \/ RedactAgain

SpecRedact == InitRedact /\ [][NextRedact]_vars

(***************************************************************************)
(* Two overlapping invocations of TimerBackup on one store.  Each has its  *)
(* own locals: run, pc, workflows, w, content, safe, uploaded and summary  *)
(* hold one value for each invocation.  A step is a whole call of the      *)
(* invocation (list_workflows, get_workflow_json with the redaction,       *)
(* upload_latest_to_blob), with any result the call can give; one          *)
(* upload_blob is one write of the storage service.                        *)
(***************************************************************************)
\* The scheduled invocation and one triggered by hand.
Runs == {"scheduled", "manual"}

\* What list_workflows can return: the names found, sorted and distinct.
Discoveries ==
    {s \in UNION {[1..k -> Names] : k \in 0..Cardinality(Names)} :
        \A a, b \in DOMAIN s : a < b => Rank(s[a]) < Rank(s[b])}

\* What get_workflow_json can return.
Fetches == {Absent} \cup {Text(d) : d \in Docs}

InitOverlap ==
    /\ SUBSCRIPTION_ID = "set" /\ RESOURCE_GROUP_NAME = "set"
    /\ LOGICAPP_SITE_NAME = "site" /\ RETRY_MAX = 3
    /\ run = [r \in Runs |-> "idle"] /\ pc = [r \in Runs |-> "start"]
    /\ attempt = 0 /\ sent = 0 /\ slept = 0 /\ fails = 0 /\ resp = NoCall
    /\ entries = <<>> /\ i = 0 /\ found = <<>> /\ workflows_dir = 0
    /\ workflows = [r \in Runs |-> <<>>] /\ w = [r \in Runs |-> 0]
    /\ c = 0 /\ statuses = <<>>
    /\ content = [r \in Runs |-> Absent] /\ safe = [r \in Runs |-> <<>>]
    /\ uploaded = [r \in Runs |-> <<>>]
    /\ summary = [r \in Runs |-> <<>>] /\ log = {} /\ net = {}
    /\ store = [p \in {} |-> None]
    /\ created = "none" /\ started = <<>> /\ writes = <<>>

\* What no step of the overlapping invocations changes.
shared == <<settings, frame, lw, gw, log, net, created>>

\* The for loop of invocation r reaches index idx with uploaded upl.
LoopOf(r, idx, upl) ==
    /\ uploaded' = [uploaded EXCEPT ![r] = upl]
    /\ IF idx <= Len(workflows'[r])
       THEN /\ pc' = [pc EXCEPT ![r] = "fetch"]
            /\ w' = [w EXCEPT ![r] = idx]
            /\ UNCHANGED <<run, summary>>
       ELSE /\ pc' = [pc EXCEPT ![r] = "summary"]
            /\ w' = [w EXCEPT ![r] = 0]
            /\ run' = [run EXCEPT ![r] = "returned"]
            /\ summary' = [summary EXCEPT
                              ![r] = <<result(workflows'[r], upl)>>]

\* The trigger of r fires; the settings are there and the credentials are
\* obtained.
Invoke(r) ==
    /\ run[r] = "idle"
    /\ started' = Append(started, r)
    /\ run' = [run EXCEPT ![r] = "running"]
    /\ pc' = [pc EXCEPT ![r] = "discover"]
    /\ UNCHANGED <<shared, workflows, w, content, safe, uploaded, summary,
                   store, writes>>

\* workflows = list_workflows(...)
Discovered(r, wfs) ==
    /\ run[r] = "running" /\ pc[r] = "discover"
    /\ workflows' = [workflows EXCEPT ![r] = wfs]
    /\ LoopOf(r, 1, <<>>)
    /\ UNCHANGED <<shared, content, safe, store, started, writes>>

\* content = get_workflow_json(...); if content: safe = redact(content)
FetchedBy(r, got) ==
    /\ run[r] = "running" /\ pc[r] = "fetch"
    /\ content' = [content EXCEPT ![r] = got]
    /\ UNCHANGED <<shared, workflows, store, started, writes>>
    /\ IF HasContent(got)
       THEN /\ safe' = [safe EXCEPT ![r] = Safe(got.text)]
            /\ pc' = [pc EXCEPT ![r] = "upload"]
            /\ UNCHANGED <<run, w, uploaded, summary>>
       ELSE /\ LoopOf(r, w[r] + 1, uploaded[r])
            /\ UNCHANGED safe

\* path = upload_latest_to_blob(...); uploaded.append(path)
UploadedBy(r, blob) ==
    /\ run[r] = "running" /\ pc[r] = "upload"
    /\ UNCHANGED <<shared, workflows, content, safe, started>>
    /\ IF blob = "ok"
       THEN /\ store' = upload_blob(
                            blob_path(LOGICAPP_SITE_NAME, workflows[r][w[r]]),
                            safe[r])
            /\ writes' = Append(writes,
                   [by |-> r,
                    path |-> blob_path(LOGICAPP_SITE_NAME, workflows[r][w[r]]),
                    data |-> safe[r]])
            /\ LoopOf(r, w[r] + 1,
                      Append(uploaded[r],
                             blob_path(LOGICAPP_SITE_NAME,
                                       workflows[r][w[r]])))
       ELSE /\ run' = [run EXCEPT ![r] = "raised"]
            /\ UNCHANGED <<pc, w, uploaded, summary, store, writes>>

\* An exception of list_workflows or get_workflow_json leaves r.
RaisedBy(r) ==
    /\ run[r] = "running" /\ pc[r] \in {"discover", "fetch"}
    /\ run' = [run EXCEPT ![r] = "raised"]
    /\ UNCHANGED <<shared, pc, workflows, w, content, safe, uploaded, summary,
                   store, started, writes>>

NextOverlap ==
    \E r \in Runs :
        \/ Invoke(r)
        \/ \E wfs \in Discoveries : Discovered(r, wfs)
        \/ \E got \in Fetches : FetchedBy(r, got)
        \/ \E blob \in BlobOutcomes : UploadedBy(r, blob)
        \/ RaisedBy(r)

SpecOverlap == InitOverlap /\ [][NextOverlap]_vars

(***************************************************************************)
(* Properties.                                                             *)
(***************************************************************************)
\* A status of 400 or above other than 403 and 404.
HardStatus(st) == st >= 400 /\ st \notin {403, 404}

\* The path of the snapshot of workflow wf_name of the configured site.
PathOf(wf_name) == blob_path(LOGICAPP_SITE_NAME, wf_name)

\* The run has discovered exactly "A" and "B", has fetched non-empty text
\* for "A", and a request of the fetch of "B" has just been answered.
ScenarioAB ==
    /\ run = "running" /\ pc = "fetch"
    /\ workflows = <<"A", "B">> /\ w = 2
    /\ HasContent(content)
    /\ resp.kind = "response"

\* The fetch of "B" is answered forbidden at all three locations.
ForbiddenB ==
    c = 3 /\ statuses = <<403, 403>> /\ resp.status = 403

\* The snapshot of "A" has been uploaded by this run and nothing else, and
\* the run fails here: no upload for "B", no summary.
AbortsAtB ==
    /\ uploaded = <<PathOf("A")>>
    /\ PathOf("A") \in DOMAIN store
    /\ store[PathOf("A")] = redact_workflow_json(content.text)
    /\ run' = "raised" /\ summary' = <<>>
    /\ store' = store /\ uploaded' = uploaded /\ w' = w

\* C1 as stated: in a run that discovered "A" and "B" and fetched "A", a
\* forbidden or a hard-failure status for the fetch of "B" aborts the run
\* after the upload for "A", with no upload for "B" and no summary.
C1_Original ==
    [][(ScenarioAB /\ (ForbiddenB \/ HardStatus(resp.status)))
          => AbortsAtB]_vars

\* C1 as amended: in a run that discovered "A" and "B" and fetched non-empty
\* text for "A", a hard-failure status (400 or above, other than 403 and
\* 404) for the fetch of "B" aborts the run after the upload for "A", with
\* no upload for "B" and no summary.
C1_Amended ==
    [][(ScenarioAB /\ HardStatus(resp.status)) => AbortsAtB]_vars

C1_Witness ==
    /\ run = "raised" /\ pc = "fetch"
    /\ workflows = <<"A", "B">> /\ w = 2
    /\ resp.kind = "response" /\ resp.status = 500
    /\ uploaded = <<PathOf("A")>>
    /\ PathOf("A") \in DOMAIN store
    /\ PathOf("B") \notin DOMAIN store
    /\ summary = <<>>

\* Every leftmost non-overlapping match of the pattern in t from index p on
\* has the value ***REDACTED***.
RECURSIVE MatchesMasked(_, _)
MatchesMasked(t, p) ==
    IF p > Len(t) THEN TRUE
    ELSE LET m == pattern(t, p)
         IN  IF m.open # 0
             THEN /\ SubSeq(t, m.open + 1, m.close - 1) = REDACTED
                  /\ MatchesMasked(t, m.close + 1)
             ELSE MatchesMasked(t, p + 1)

\* No snapshot holds a matched "api-key" value other than the token.
StoreMasked ==
    \A p \in DOMAIN store : MatchesMasked(store[p], 1)

\* A step changes the store only by the upload for the workflow in hand,
\* and what an upload leaves at its path is the redaction of the text this
\* run fetched for that workflow.
StoreStep ==
    /\ \A p \in DOMAIN store' :
          (p \notin DOMAIN store \/ store'[p] # store[p])
             => pc = "upload" /\ p = PathOf(workflows[w])
    /\ DOMAIN store \subseteq DOMAIN store'
    /\ uploaded' # uploaded /\ uploaded' # <<>>
          => /\ pc = "upload" /\ HasContent(content)
             /\ uploaded' = Append(uploaded, PathOf(workflows[w]))
             /\ store'[PathOf(workflows[w])]
                   = redact_workflow_json(content.text)

\* C2: every snapshot a run persists is redact_workflow_json of the text
\* fetched for that workflow in that run, and the store never holds a
\* matched "api-key" value other than ***REDACTED***.
C2_Redacted == [](StoreMasked) /\ [][StoreStep]_vars

C2_Witness ==
    /\ PathOf("A") \in DOMAIN store
    /\ content = Text(DocSecret)
    /\ uploaded = <<PathOf("A")>>
    /\ store[PathOf("A")] # DocSecret
    /\ Contains(store[PathOf("A")], REDACTED)

\* The calls of discovery.
DiscoveryCalls == {"list_root", "probe_root", "list_legacy", "probe_legacy"}

\* The response in hand is one list_workflows or get_workflow_json raises
\* on: an error status at the root listing, or a status of 400 or above
\* other than 403 and 404 at a root probe, a legacy listing or a fetch.
HardFailure ==
    /\ run = "running" /\ resp.kind = "response"
    /\ \/ pc = "list_root" /\ resp.status >= 400
       \/ pc \in {"probe_root", "list_legacy", "fetch"}
            /\ HardStatus(resp.status)

\* The paths of the first k workflows.
PathsUpTo(k) == {PathOf(workflows[j]) : j \in 1..k}

\* What a failed run has done when it failed in discovery or in a fetch.
FailedRun ==
    /\ (run = "raised" /\ pc \in DiscoveryCalls)
          => /\ uploaded = <<>> /\ workflows = <<>> /\ summary = <<>>
             /\ "blob" \notin net
    /\ (run = "raised" /\ pc = "fetch")
          => /\ summary = <<>>
             /\ \A k \in DOMAIN uploaded :
                   /\ uploaded[k] \in PathsUpTo(w - 1)
                   /\ uploaded[k] \in DOMAIN store

\* A hard failure ends the run on the spot, and a failed run does nothing
\* more: the next step is a new invocation.
FailStep ==
    /\ HardFailure
          => /\ run' = "raised" /\ summary' = <<>>
             /\ store' = store /\ uploaded' = uploaded
             /\ w' = w /\ c' = c /\ pc' = pc /\ net' = net
    /\ run = "raised"
          => /\ pc' \in {"start", "creds"} /\ sent' = 0
             /\ store' = store

\* C3: a hard failure raised by discovery or by the fetch of the k-th
\* workflow aborts the run: the snapshots uploaded for workflows 1..k-1
\* remain, nothing is fetched or uploaded for workflow k or a later one,
\* and no summary is produced.
C3_Aborts == [](FailedRun) /\ [][FailStep]_vars

C3_Witness ==
    /\ run = "raised" /\ pc = "fetch" /\ w = 2 /\ c = 2
    /\ resp.kind = "response" /\ resp.status = 500
    /\ uploaded = <<PathOf(workflows[1])>>
    /\ summary = <<>>

\* A required setting is unset or empty.
ConfigMissing ==
    \/ SUBSCRIPTION_ID \in {None, ""}
    \/ RESOURCE_GROUP_NAME \in {None, ""}
    \/ LOGICAPP_SITE_NAME \in {None, ""}

\* C4: with a required setting missing, a run makes no network call,
\* changes no snapshot, logs a configuration error and returns normally.
C4_ConfigMissing ==
    ConfigMissing
       => /\ net = {} /\ sent = 0 /\ resp.kind = "nocall"
          /\ DOMAIN store = {}
          /\ run \in {"idle", "returned"}
          /\ run = "returned" => "error" \in log /\ summary = <<>>

C4_Witness ==
    /\ ConfigMissing /\ run = "returned" /\ "error" \in log
    /\ SUBSCRIPTION_ID = "set" /\ LOGICAPP_SITE_NAME = "site"

\* C5 as stated: for every integer RETRY_MAX, a call whose attempts all fail
\* at transport level makes exactly RETRY_MAX attempts and then re-raises,
\* and no call returns to its caller without a response.
C5_Original ==
    /\ resp.kind = "raised" => sent = RETRY_MAX /\ fails = RETRY_MAX
    /\ resp.kind # "None"

\* What holds of a call that has returned a response: one request more than
\* there were transport failures, one sleep per failure and none after.
ReturnedAsIs ==
    resp.kind = "response"
       => /\ sent = fails + 1 /\ slept = fails /\ attempt = sent
          /\ resp.status \in Statuses

\* Once a call has returned a response it sends and sleeps no more.
NoMoreRequests ==
    resp.kind = "response"
       => \/ resp' = resp /\ sent' = sent /\ slept' = slept
          \/ resp'.kind \in {"pending", "nocall"} /\ sent' = 0

\* C6: _retry_request never retries on a status: the first completed
\* exchange returns its response whatever the status, with no request and
\* no sleep after it, so requests sent = transport failures before it + 1.
C6_NoStatusRetry == [](ReturnedAsIs) /\ [][NoMoreRequests]_vars

C6_Witness ==
    /\ resp.kind = "response" /\ resp.status = 500
    /\ fails = 1 /\ sent = 2 /\ slept = 1

\* The names of a sequence.
Range(s) == {s[k] : k \in DOMAIN s}

\* C7: whenever list_workflows returns, what it returns is sorted and holds
\* no name twice (and holds the names found).
C7_SortedUnique ==
    /\ \A a, b \in DOMAIN workflows :
          a < b => Rank(workflows[a]) < Rank(workflows[b])
    /\ pc \in {"fetch", "create", "upload", "summary"}
          => Range(workflows) = Range(found)

C7_Witness ==
    /\ found = <<"B", "A">> /\ workflows = <<"A", "B">> /\ pc = "fetch"

\* C8 as stated: a root probe that answers success confirms the name, one
\* that answers not found or forbidden skips it without error, and every
\* other status aborts discovery.
C8_Original ==
    [][(Returned("probe_root") /\ resp.kind = "response")
          => /\ resp.status = 200
                  => found' = Append(found, entries[i].name)
                     /\ run' # "raised"
             /\ resp.status \in {403, 404}
                  => found' = found /\ run' # "raised"
             /\ resp.status \notin {200, 403, 404}
                  => run' = "raised" /\ workflows' = <<>>]_vars

\* C9 as stated: a legacy probe follows the rules of the root probe (success
\* confirms, not found and forbidden skip, an error status other than these
\* aborts discovery), and a name already found is not added again.
C9_Original ==
    [][(Returned("probe_legacy") /\ resp.kind = "response")
          => /\ resp.status = 200
                  => found' = (IF In(entries[i].name, found) THEN found
                               ELSE Append(found, entries[i].name))
                     /\ run' # "raised"
             /\ resp.status \in {403, 404}
                  => found' = found /\ run' # "raised"
             /\ HardStatus(resp.status)
                  => run' = "raised" /\ workflows' = <<>>]_vars

\* The three locations of workflow.json of wf_name in priority order.
FixedOrder(wf_name) ==
    << <<wf_name, "workflow.json">>,
       <<"Workflows", wf_name, "workflow.json">>,
       <<"workflows", wf_name, "workflow.json">> >>

\* A fetch in progress has asked the locations before the current one, in
\* order, and none of them answered success.
FetchInOrder ==
    (run = "running" /\ pc = "fetch")
       => /\ c \in 1..3 /\ Len(statuses) = c - 1
          /\ \A k \in DOMAIN statuses : statuses[k] # 200
          /\ url = FixedOrder(workflows[w])[c]

\* A success is returned at once and ends the fetch; the fetch goes on only
\* to the next location and only after a non-success; three answers "not
\* found" give the absent result without raising.
FetchStep ==
    (run = "running" /\ pc = "fetch" /\ resp.kind = "response")
       => /\ resp.status = 200
               => /\ content' = Text(resp.body)
                  /\ run' # "raised"
                  /\ ~(pc' = "fetch" /\ w' = w)
          /\ (pc' = "fetch" /\ w' = w /\ run' = "running")
               => c' = c + 1 /\ resp.status # 200
          /\ (c = 3 /\ statuses = <<404, 404>> /\ resp.status = 404)
               => content' = Absent /\ run' # "raised"

\* C10: get_workflow_json asks root-direct, "Workflows", "workflows" in
\* this order, returns the content of the first that answers success and
\* asks no later one; three "not found" give None without raising.
C10_FirstSuccess == [](FetchInOrder) /\ [][FetchStep]_vars

C10_Witness ==
    /\ pc = "upload" /\ c = 3 /\ content = Text(DocPlain)
    /\ run = "running"

\* C11 as stated: in get_workflow_json a response whose status is neither
\* success nor not found nor forbidden is raised at once: the fetch aborts,
\* no later location is asked, and neither content nor None is returned.
C11_Original ==
    [][(run = "running" /\ pc = "fetch" /\ resp.kind = "response"
        /\ resp.status \notin {200, 403, 404})
          => /\ run' = "raised"
             /\ pc' = pc /\ w' = w /\ c' = c /\ sent' = sent
             /\ content' = content]_vars

\* The end of the string literal whose characters start at index j of t:
\* the index of the first double quote that no backslash escapes
\* (Len(t)+1 if the literal is not closed).
RECURSIVE StringEnd(_, _)
StringEnd(t, j) ==
    IF j > Len(t) THEN j
    ELSE IF t[j] = BACKSLASH THEN StringEnd(t, j + 2)
    ELSE IF t[j] = QUOTE THEN j
    ELSE StringEnd(t, j + 1)

\* The field "api-key" with a colon and the opening quote of a value starts
\* at index p of t: the index of that opening quote, else 0.
ValueOpen(t, p) ==
    IF /\ p + 2 <= Len(t)
       /\ t[p] = QUOTE /\ t[p + 1] = KEY /\ t[p + 2] = QUOTE
    THEN LET a == SkipSpace(t, p + 3)
             b == SkipSpace(t, a + 1)
         IN  IF a <= Len(t) /\ t[a] = COLON /\ b <= Len(t) /\ t[b] = QUOTE
             THEN b ELSE 0
    ELSE 0

\* Every value of the field in t is a closed string literal.
ValuesClosed(t) ==
    \A p \in 1..Len(t) :
        ValueOpen(t, p) # 0 => StringEnd(t, ValueOpen(t, p) + 1) <= Len(t)

\* t from index p on with the value of every occurrence of the field
\* replaced by the token, the field name, the quotes and everything else
\* kept.
RECURSIVE ValuesMasked(_, _)
ValuesMasked(t, p) ==
    IF p > Len(t) THEN <<>>
    ELSE LET b == ValueOpen(t, p)
             e == StringEnd(t, b + 1)
         IN  IF b # 0 /\ e <= Len(t)
             THEN SubSeq(t, p, b) \o REDACTED \o <<QUOTE>>
                     \o ValuesMasked(t, e + 1)
             ELSE <<t[p]>> \o ValuesMasked(t, p + 1)

\* C12 as stated, for documents in which every value of the field is a
\* closed string literal: redact_workflow_json replaces the value of every
\* occurrence of "api-key" with ***REDACTED*** and leaves every other
\* character unchanged.
C12_Original ==
    (pc = "redacted" /\ ValuesClosed(content.text))
       => safe = ValuesMasked(content.text, 1)

\* C13: redact_workflow_json(redact_workflow_json(d)) equals
\* redact_workflow_json(d) for every document d.
C13_Idempotent ==
    pc = "again" => safe = content.text

C13_Witness ==
    /\ pc = "again"
    /\ Contains(content.text, REDACTED)
    /\ Len(content.text) > 6
    /\ safe = content.text

\* Every object of the store is the snapshot of a workflow of the site, at
\* <site>/<workflow>/latest.json: the store, a function of the path, holds
\* one content for each.
SnapshotPaths ==
    \A p \in DOMAIN store : \E n \in Names : p = PathOf(n)

\* This step is a call of upload_blob that completes.
UploadCompletes ==
    run = "running" /\ pc = "upload" /\ run' # "raised"

\* A completed upload leaves the text in hand at the path of the workflow
\* in hand, whatever was there, and no content changes in another way.
Overwrites ==
    /\ UploadCompletes
          => /\ DOMAIN store' = DOMAIN store \cup {PathOf(workflows[w])}
             /\ store'[PathOf(workflows[w])] = safe
    /\ \A p \in DOMAIN store \cap DOMAIN store' :
          store'[p] # store[p] => UploadCompletes /\ p = PathOf(workflows[w])

\* C14: the store holds one snapshot for each (site, workflow), at
\* <site>/<workflow>/latest.json; every completed upload overwrites what
\* was at its path, so the content at a path is that of the latest
\* completed upload to it.
C14_LatestOnly == [](SnapshotPaths) /\ [][Overwrites]_vars

\* A later run that discovered only "A" has replaced the snapshot of "A"
\* while the snapshot of "B" of an earlier run stays.
C14_Witness ==
    /\ run = "returned" /\ workflows = <<"A">>
    /\ uploaded = <<PathOf("A")>>
    /\ content = Text(DocPlain) /\ store[PathOf("A")] = DocPlain
    /\ PathOf("B") \in DOMAIN store
    /\ store[PathOf("B")] = DocUnquoted

\* The run went through the loop and logged its result.
Completed == run = "returned" /\ pc = "summary"

\* A completed run has logged one result: the site, the discovery result
\* and the uploaded list of the run; no other run has logged a result.
SummaryOfRun ==
    /\ Completed
          => /\ Len(summary) = 1
             /\ summary[1].site = LOGICAPP_SITE_NAME
             /\ summary[1].workflows_found = sorted(found)
             /\ summary[1].workflows_found = workflows
             /\ summary[1].uploaded = uploaded
    /\ ~Completed => summary = <<>>

\* The uploaded list follows the order of the discovery result.
ProcessingOrder ==
    \E f \in [DOMAIN uploaded -> DOMAIN workflows] :
        /\ \A k \in DOMAIN uploaded : uploaded[k] = PathOf(workflows[f[k]])
        /\ \A j, k \in DOMAIN uploaded : j < k => f[j] < f[k]

\* A path joins the uploaded list exactly in the step in which its
\* upload completes; the list is otherwise kept, or emptied by a new run.
WrittenStep ==
    IF UploadCompletes
    THEN /\ uploaded' = Append(uploaded, PathOf(workflows[w]))
         /\ PathOf(workflows[w]) \in DOMAIN store'
         /\ store'[PathOf(workflows[w])] = safe
    ELSE /\ store' = store
         /\ \/ uploaded' = uploaded
            \/ run # "running" /\ uploaded' = <<>>

\* C15: a run that completes logs exactly one result with the site, the
\* discovery result and the paths written in this run in processing order;
\* a path is in the list if and only if its upload completed in this run.
C15_Summary ==
    [](SummaryOfRun /\ ProcessingOrder) /\ [][WrittenStep]_vars

\* "A" was skipped and "B" written: the result lists both names and the
\* path of "B" alone.
C15_Witness ==
    /\ Completed /\ Len(summary) = 1
    /\ summary[1].workflows_found = <<"A", "B">>
    /\ summary[1].uploaded = <<PathOf("B")>>
    /\ PathOf("B") \in DOMAIN store

\* The step of the run a call belongs to: 0 validate config, 1 acquire
\* credentials, 2 discover, 3 the loop over the workflows, 4 summarize.
Stage(at) ==
    CASE at = "start" -> 0
      [] at = "creds" -> 1
      [] at \in {"list_root", "probe_root", "list_legacy", "probe_legacy"} -> 2
      [] at \in {"fetch", "create", "upload"} -> 3
      [] at = "summary" -> 4

\* What holds at each step of a run: a file-API request comes after the
\* token and the credentials request; in the loop discovery has returned
\* its sorted result and one workflow of it is in hand; what is uploaded is
\* the redaction of the text fetched for it.
StageInv ==
    /\ "vfs" \in net => Stage(pc) >= 2 /\ {"token", "arm"} \subseteq net
    /\ "arm" \in net => Stage(pc) >= 1 /\ "token" \in net
    /\ Stage(pc) = 3
          => /\ workflows = sorted(found)
             /\ w \in DOMAIN workflows
    /\ pc \in {"create", "upload"}
          => HasContent(content) /\ safe = redact_workflow_json(content.text)
    /\ Stage(pc) < 3 => uploaded = <<>> /\ content = Absent
    /\ Stage(pc) = 0 => net = {}

\* How a step moves between the steps of a run.
StageStep ==
    IF run # "running"
    THEN \* a new run starts with the configuration check
         /\ pc' \in {"start", "creds"}
         /\ pc' = "creds" <=> ~MissingEnv
    ELSE /\ Stage(pc') >= Stage(pc)
         /\ Stage(pc) = 1 => Stage(pc') <= 2
         /\ (pc = "creds" /\ pc' # "creds")
               => resp.status = 200 /\ HasCredentials(resp.body)
         /\ Stage(pc) = 3
               => /\ workflows' = workflows
                  /\ pc = "fetch" => pc' \in {"fetch", "create", "summary"}
                  /\ pc = "create" => pc' = "upload" /\ w' = w
                  /\ pc = "upload" => pc' \in {"upload", "fetch", "summary"}
                  /\ Stage(pc') = 3
                        => /\ w' \in {w, w + 1}
                           /\ w' = w + 1
                                 => \/ pc = "upload" /\ run' = "running"
                                          /\ uploaded' # uploaded
                                    \/ pc = "fetch" /\ ~HasContent(content')
                  /\ Stage(pc') = 4
                        => /\ w = Len(workflows)
                           /\ \/ pc = "upload" /\ uploaded' # uploaded
                              \/ pc = "fetch" /\ ~HasContent(content')

\* C16: the steps of a run follow the order validate config, acquire
\* credentials, discover, per workflow fetch, redact, upload, then
\* summarize; get_publishing_credentials is entered once, at the start of
\* the run and before any file-API request; no fetch starts before
\* discovery has returned; the workflows are taken one at a time in the
\* sorted order, the next only after the upload of the previous one.
C16_StepOrder == [](StageInv) /\ [][StageStep]_vars

C16_Witness ==
    /\ Completed
    /\ workflows = <<"A", "B">>
    /\ uploaded = <<PathOf("A"), PathOf("B")>>
    /\ net = {"token", "arm", "vfs", "container", "blob"}

\* A run fails inside upload_latest_to_blob only at the blob write, and the
\* blob write comes after a create_container that ended in any way.
CreateInv ==
    /\ pc = "create" => run = "running"
    /\ pc = "upload" => created \in CreateOutcomes /\ "container" \in net
    /\ (pc = "upload" /\ run = "raised") => "blob" \in net

\* However create_container ends, the blob write for the same workflow
\* and text comes next; the blob write is sent, and the run fails there
\* exactly when the store is left as it was.
CreateStep ==
    /\ (run = "running" /\ pc = "create")
          => /\ run' = "running" /\ pc' = "upload"
             /\ created' \in CreateOutcomes
             /\ w' = w /\ safe' = safe /\ store' = store
             /\ uploaded' = uploaded
    /\ (run = "running" /\ pc = "upload")
          => /\ "blob" \in net'
             /\ created' = created
             /\ \/ /\ run' = "raised"
                   /\ store' = store /\ uploaded' = uploaded
                \/ /\ run' # "raised"
                   /\ store'[PathOf(workflows[w])] = safe
                   /\ uploaded' = Append(uploaded, PathOf(workflows[w]))

\* C17: in upload_latest_to_blob a failure of create_container, "already
\* exists" or any other, is ignored: the blob write to the path is still
\* attempted, and only a failure of the blob write reaches the caller.
C17_CreateIgnored == [](CreateInv) /\ [][CreateStep]_vars

\* create_container failed with an error other than "already exists" and
\* the one upload of the run completed.
C17_Witness ==
    /\ created = "error"
    /\ uploaded = <<PathOf("A")>>
    /\ store[PathOf("A")] = safe
    /\ run = "running" /\ pc = "fetch"

\* The text t has the quoted field name and not the masking token.
NameWithoutToken(t) ==
    /\ \E k \in 1..(Len(t) - 2) :
          t[k] = QUOTE /\ t[k + 1] = KEY /\ t[k + 2] = QUOTE
    /\ \A k \in 1..Len(t) : <<t[k]>> # REDACTED

\* This step is the redaction and audit of a fetched non-empty text.
Audits ==
    run = "running" /\ pc = "fetch" /\ pc' = "create"

\* The audit logs a warning exactly for an output with the name and
\* without the token; with or without it the run goes on to the upload of
\* the redacted text; no other step logs a warning.
AuditStep ==
    /\ Audits
          => /\ log' = IF NameWithoutToken(safe')
                       THEN log \cup {"warning"} ELSE log
             /\ run' = "running"
             /\ safe' = redact_workflow_json(content'.text)
    /\ ("warning" \in log' /\ "warning" \notin log) => Audits
    /\ (run = "running" /\ pc = "fetch" /\ run' = "running"
        /\ HasContent(content') /\ content' # content)
          => Audits
    /\ (run = "running" /\ pc \in {"create", "upload"})
          => log' = log /\ safe' = safe

\* C18: after redaction a warning is logged if and only if the output
\* holds "api-key" and not ***REDACTED***; the warning never aborts the run
\* and the redacted text is uploaded whether or not it was logged.
C18_SoftAudit == [][AuditStep]_vars

\* The one text of the run was audited with a warning and uploaded.
C18_Witness ==
    /\ "warning" \in log
    /\ content = Text(DocUnquoted)
    /\ uploaded = <<PathOf("A")>>
    /\ store[PathOf("A")] = redact_workflow_json(DocUnquoted)

\* The indices of the completed uploads to path p.
WritesTo(p) == {k \in DOMAIN writes : writes[k].path = p}

\* The completed upload to path p that came last.
LastWrite(p) ==
    writes[CHOOSE k \in WritesTo(p) : \A j \in WritesTo(p) : j <= k]

\* The store holds the paths uploaded to, each with the whole text of the
\* upload to it that completed last.
LastWriteWins ==
    /\ DOMAIN store = {writes[k].path : k \in DOMAIN writes}
    /\ \A p \in DOMAIN store : store[p] = LastWrite(p).data

\* An invocation that has a blob to write can write it, whatever the
\* other invocation is doing.
NoExclusion ==
    \A r \in Runs :
        (run[r] = "running" /\ pc[r] = "upload")
           => ENABLED UploadedBy(r, "ok")

\* C19: two overlapping runs interleave with no mutual exclusion, and in
\* every interleaving the content at each path is the whole content of the
\* upload to it that completed last.
C19_LastWriteWins == LastWriteWins /\ NoExclusion

\* The scheduled run started first and wrote the snapshot of "A" last:
\* its text has replaced the different text of the later-started run.
C19_Witness ==
    /\ started = <<"scheduled", "manual">>
    /\ Len(writes) = 2
    /\ writes[1].by = "manual" /\ writes[1].path = PathOf("A")
    /\ writes[2].by = "scheduled" /\ writes[2].path = PathOf("A")
    /\ writes[1].data # writes[2].data
    /\ store[PathOf("A")] = writes[2].data

\* The fetch of the workflow in hand ends here with nothing to upload: an
\* empty body from the location that answered success, or not found or
\* forbidden from the last location.
NothingFetched ==
    /\ run = "running" /\ pc = "fetch" /\ resp.kind = "response"
    /\ \/ resp.status = 200 /\ resp.body = <<>>
       \/ c = 3 /\ resp.status \in {403, 404}

\* A step keeps every object of the store; it changes the content of a
\* path only by the upload for a workflow of the discovery result of this
\* run whose fetch gave a non-empty text; a workflow whose fetch gave
\* nothing is passed without error and the loop goes on.
FrameStep ==
    /\ DOMAIN store \subseteq DOMAIN store'
    /\ \A p \in DOMAIN store' :
          (p \notin DOMAIN store \/ store'[p] # store[p])
             => /\ run = "running" /\ pc = "upload"
                /\ workflows = sorted(found)
                /\ \E k \in DOMAIN workflows :
                      k = w /\ p = <<LOGICAPP_SITE_NAME, workflows[k],
                                     "latest.json">>
                /\ content.some /\ content.text # <<>>
                /\ store'[p] = redact_workflow_json(content.text)
    /\ NothingFetched
          => /\ run' # "raised"
             /\ store' = store /\ uploaded' = uploaded
             /\ log' = log
             /\ IF w < Len(workflows)
                THEN pc' = "fetch" /\ w' = w + 1 /\ c' = 1
                ELSE pc' = "summary" /\ run' = "returned"

\* C20: a run writes only <site>/<wf>/latest.json for the workflows of its
\* own discovery result whose fetch returned non-empty text; a workflow
\* whose fetch returns None or an empty body is skipped without error;
\* every other object of the store stays as it is and none is deleted.
C20_Frame == [][FrameStep]_vars

\* A later run found "A" and "B", had nothing to upload for "A" and wrote
\* "B": the snapshot of "A" of an earlier run is still there.
C20_Witness ==
    /\ Completed
    /\ workflows = <<"A", "B">>
    /\ uploaded = <<PathOf("B")>>
    /\ PathOf("A") \in DOMAIN store
    /\ store[PathOf("A")] = redact_workflow_json(DocSecret)
    /\ store[PathOf("B")] = DocPlain

====
